---- MODULE Spec2Model ----
(***************************************************************************)
(* Model of the conversation flow of hr_job_creation (HrJobCreationFlow in *)
(* src/src/hr_job_creation/main.py).  One turn is one run of the flow:     *)
(* starting_flow, then the router routing_intent, then the listener of the *)
(* label the router returned.  The language model, the crew and the rewrite*)
(* agent are external: their results are inputs drawn from small sets.     *)
(*                                                                         *)
(* Two parts are not in the source files and are taken from the            *)
(* specification.  main.py imports the crew under the name HrCrew, which   *)
(* hr_crew.py does not define: the crew is the specification's opaque      *)
(* generator, returning a text or failing.  And main.py's kickoff() runs   *)
(* one turn of a new flow; a later turn of the same conversation, started  *)
(* from the state saved by the turn before, is the specification's         *)
(* submit_turn.                                                            *)
(***************************************************************************)
EXTENDS Integers, Sequences, FiniteSets, TLC

\* ---------------------------------------------------------------- bounds
\* Number of turns (kickoffs) of one conversation that are explored.
MaxTurns == 2

\* ---------------------------------------------------------------- values
\* Python's None for the Optional[str] fields.
None == "None"

\* Python's None for an Optional[RoleInfo]: a value without the slots.
NoRoleInfo == [none |-> TRUE]

\* FlowState.user_message default.
DefaultUserMessage == "HI, create a job posting for a data engineer based in NYC for Johnson & Johnson"

\* Texts a caller may submit as user_message ("" is falsy in starting_flow).
UserMessages == {"", DefaultUserMessage}

JobRoles == {"Data Engineer", "Product Manager"}
Locations == {"NYC"}
Companies == {"J&J", "Google"}

\* class RoleInfo: three Optional[str] slots.
RoleInfo == [job_role : JobRoles \cup {None},
             location : Locations \cup {None},
             company_name : Companies \cup {None}]

\* RoleInfo(): every slot None (the default_factory).
EmptyRoleInfo == [job_role |-> None, location |-> None, company_name |-> None]

\* The role_info values the classifier returns in the explored runs: nothing,
\* one slot, all slots, all slots of another job, or no RoleInfo at all.
ClassifiedRoleInfo ==
  {EmptyRoleInfo,
   [job_role |-> "Data Engineer", location |-> None, company_name |-> None],
   [job_role |-> "Data Engineer", location |-> "NYC", company_name |-> "J&J"],
   [job_role |-> "Product Manager", location |-> "NYC", company_name |-> "Google"],
   NoRoleInfo}

\* Literal["job_creation", "conversation", "refinement"].
Intents == {"job_creation", "conversation", "refinement"}

Feedbacks == {"remove benefits section", "add salary range"}
Answers == {"", "Which company is it for?"}

\* class RouterIntent: what a schema-valid classifier result can be
\* (reasoning is never read and is left out).
RouterIntent == [user_intent : Intents,
                 role_info : ClassifiedRoleInfo,
                 feedback : Feedbacks \cup {None},
                 answer_message : Answers \cup {None}]

\* llm.call raising, or returning something that is not a RouterIntent.
LlmError == [error |-> TRUE]

\* Texts result.raw can be, for the crew and for the rewrite agent.
Postings == {"", "posting A", "posting B"}

\* crew.kickoff / agent.kickoff raising.
KickoffError == "KickoffError"

\* HrCrew().crew().kickoff(inputs): the generator returns one text or fails,
\* whatever the inputs.
HrCrew == Postings \cup {KickoffError}

\* class Message, without the wall-clock timestamp.
Message(role, content) == [role |-> role, content |-> content]

\* class FlowState: the state of a fresh flow.
FlowState == [user_message |-> DefaultUserMessage,
              message_history |-> << >>,
              role_info |-> EmptyRoleInfo,
              job_posting |-> None,
              feedback |-> None,
              answer_message |-> None]

\* The listeners of the flow and the label each one listens to.
ListenTo == [follow_up_conversation |-> "conversation",
             handle_job_creation |-> "job_creation",
             handle_refinement |-> "refinement"]

\* Listeners, had handle_refinement also been registered on "job_creation".
Listeners_M(label) ==
  {m \in DOMAIN ListenTo : ListenTo[m] = label}
    \cup (IF label = "job_creation" THEN {"handle_refinement"} ELSE {})

\* The methods the flow engine starts when the router returns a label.
Listeners(label) == {m \in DOMAIN ListenTo : ListenTo[m] = label}

\* Python truthiness of an Optional[str].
Truthy(s) == s /= None /\ s /= ""

VARIABLES
  state,      \* self.state, the FlowState of the running flow
  persisted,  \* the FlowState last saved by @persist for the running conversation
  pc,         \* position of the flow: idle, starting_flow, routing_intent, listen, done, failed
  pending,    \* listeners started by the router's label and not finished
  turns,      \* number of turns of the running conversation so far
  pre,        \* the persisted state when the current turn was started
  response,   \* the classifier result of the current turn, or LlmError
  calls,      \* external crew / agent calls made in the current turn
  ran,        \* listeners that ran in the current turn, in order
  reply,      \* return value of the last listener of the current turn
  produced,   \* whether a crew or rewrite run has ever completed
  clean       \* whether every turn so far had a user message and none failed

vars == <<state, persisted, pc, pending, turns, pre, response, calls, ran, reply, produced, clean>>

\* The turn-local bookkeeping, reset when a turn is started.
NoResponse == [none |-> TRUE]
NoReply == "NoReply"

Init ==
  /\ state = FlowState
  /\ persisted = FlowState
  /\ pc = "idle"
  /\ pending = {}
  /\ turns = 0
  /\ pre = FlowState
  /\ response = NoResponse
  /\ calls = << >>
  /\ ran = << >>
  /\ reply = NoReply
  /\ produced = FALSE
  /\ clean = TRUE

\* add_message, had the new Message been put in front of the history.
add_message_M(s, role, content) ==
  [s EXCEPT !.message_history = <<Message(role, content)>> \o @]

\* add_message: the history with one more Message.
add_message(s, role, content) ==
  [s EXCEPT !.message_history = Append(@, Message(role, content))]

\* kickoff(): a new HrJobCreationFlow is built and run without inputs, so the
\* turn is the first of a new conversation: it starts from a fresh FlowState
\* with the default user_message, whatever an earlier flow saved.
kickoff ==
  /\ pc \in {"idle", "done", "failed"}
  /\ turns' = 1
  /\ state' = FlowState
  /\ persisted' = FlowState
  /\ pre' = FlowState
  /\ pc' = "starting_flow"
  /\ pending' = {}
  /\ response' = NoResponse
  /\ calls' = << >>
  /\ ran' = << >>
  /\ reply' = NoReply
  /\ produced' = FALSE
  /\ clean' = TRUE

\* submit_turn(user_message): the state saved last is loaded as a FlowState
\* and the user_message of the turn is written into it.  Saved data whose
\* role_info is null is no FlowState (role_info: RoleInfo): the load raises
\* and the turn is over before starting_flow.  The conversation is one a
\* kickoff began.
submit_turn(msg) ==
  /\ pc \in {"done", "failed"}
  /\ turns < MaxTurns
  /\ turns' = turns + 1
  /\ pre' = persisted
  /\ pending' = {}
  /\ response' = NoResponse
  /\ calls' = << >>
  /\ ran' = << >>
  /\ reply' = NoReply
  /\ IF persisted.role_info = NoRoleInfo
       THEN /\ pc' = "failed"
            /\ clean' = FALSE
            /\ UNCHANGED state
       ELSE /\ state' = [persisted EXCEPT !.user_message = msg]
            /\ pc' = "starting_flow"
            /\ clean' = (clean /\ pc /= "failed" /\ msg /= "")
  /\ UNCHANGED <<persisted, produced>>

\* @start() starting_flow.
starting_flow ==
  /\ pc = "starting_flow"
  /\ state' = IF state.user_message /= ""
                THEN add_message(state, "user", state.user_message)
                ELSE state
  /\ persisted' = state'
  /\ pc' = "routing_intent"
  /\ UNCHANGED <<pending, turns, clean, pre, response, calls, ran, reply, produced>>

\* route, had the answer_message of the result not been stored.
route_M(s, r) ==
  [s EXCEPT !.role_info = r.role_info,
            !.feedback = IF Truthy(r.feedback) THEN r.feedback ELSE @]

\* route, had only the slots that differ from the stored ones been taken over.
route_Diff(s, r) ==
  [s EXCEPT !.role_info =
              IF r.role_info = NoRoleInfo \/ @ = NoRoleInfo
                THEN r.role_info
                ELSE [slot \in {"job_role", "location", "company_name"} |->
                        IF r.role_info[slot] = @[slot] THEN None
                                                      ELSE r.role_info[slot]],
            !.feedback = IF Truthy(r.feedback) THEN r.feedback ELSE @,
            !.answer_message = IF Truthy(r.answer_message) THEN r.answer_message ELSE @]

\* The assignments of routing_intent after llm.call returned r.
route(s, r) ==
  [s EXCEPT !.role_info = r.role_info,
            !.feedback = IF Truthy(r.feedback) THEN r.feedback ELSE @,
            !.answer_message = IF Truthy(r.answer_message) THEN r.answer_message ELSE @]

\* routing_intent, had a failed classification fallen back to "conversation".
routing_intent_M(r) ==
  /\ pc = "routing_intent"
  /\ IF r = LlmError
       THEN /\ pc' = "listen"
            /\ response' = r
            /\ pending' = Listeners("conversation")
            /\ UNCHANGED <<state, persisted>>
       ELSE /\ state' = route(state, r)
            /\ persisted' = state'
            /\ response' = r
            /\ pending' = Listeners(r.user_intent)
            /\ pc' = IF pending' = {} THEN "done" ELSE "listen"
  /\ UNCHANGED <<turns, clean, pre, calls, ran, reply, produced>>

\* @router(starting_flow) routing_intent, with the classifier's result r.
routing_intent(r) ==
  /\ pc = "routing_intent"
  /\ IF r = LlmError
       THEN /\ pc' = "failed"
            /\ response' = r
            /\ UNCHANGED <<state, persisted, pending>>
       ELSE /\ state' = route(state, r)
            /\ persisted' = state'
            /\ response' = r
            /\ pending' = Listeners(r.user_intent)
            /\ pc' = IF pending' = {} THEN "done" ELSE "listen"
  /\ UNCHANGED <<turns, clean, pre, calls, ran, reply, produced>>

\* Position of the flow after listener m finished.
finish(m) == IF pending \ {m} = {} THEN "done" ELSE "listen"

\* store_posting, had the result not been logged in the history.
store_posting_M(s, raw) == [s EXCEPT !.job_posting = raw]

\* The assignments of a generation or rewrite listener after result.raw = raw.
store_posting(s, raw) ==
  add_message([s EXCEPT !.job_posting = raw], "assistant", raw)

\* conversation_reply, had it stored the reply the way the other listeners do.
conversation_reply_M(s) == store_posting(s, s.answer_message)

\* The assignments of follow_up_conversation: the stored answer is logged.
conversation_reply(s) == add_message(s, "assistant", s.answer_message)

\* @listen("conversation") follow_up_conversation.
follow_up_conversation ==
  /\ pc = "listen"
  /\ "follow_up_conversation" \in pending
  /\ ran' = Append(ran, "follow_up_conversation")
  /\ IF state.answer_message = None
       THEN \* Message(content=None) fails validation
            /\ pc' = "failed"
            /\ UNCHANGED <<state, persisted, pending, reply>>
       ELSE /\ state' = conversation_reply(state)
            /\ persisted' = state'
            /\ reply' = state.answer_message
            /\ pending' = pending \ {"follow_up_conversation"}
            /\ pc' = finish("follow_up_conversation")
  /\ UNCHANGED <<turns, clean, pre, response, calls, produced>>

\* @listen("job_creation") handle_job_creation, the crew returning raw.
handle_job_creation(raw) ==
  /\ pc = "listen"
  /\ "handle_job_creation" \in pending
  /\ ran' = Append(ran, "handle_job_creation")
  /\ IF state.role_info = NoRoleInfo
       THEN \* self.state.role_info.job_role: AttributeError before the call
            /\ pc' = "failed"
            /\ UNCHANGED <<state, persisted, pending, reply, calls, produced>>
       ELSE /\ calls' = Append(calls, [fn |-> "crew.kickoff",
                                       job_role |-> state.role_info.job_role,
                                       location |-> state.role_info.location,
                                       company_name |-> state.role_info.company_name])
            /\ IF raw = KickoffError
                 THEN /\ pc' = "failed"
                      /\ UNCHANGED <<state, persisted, pending, reply, produced>>
                 ELSE /\ state' = store_posting(state, raw)
                      /\ persisted' = state'
                      /\ reply' = raw
                      /\ produced' = TRUE
                      /\ pending' = pending \ {"handle_job_creation"}
                      /\ pc' = finish("handle_job_creation")
  /\ UNCHANGED <<turns, clean, pre, response>>

\* @listen("refinement") handle_refinement, the rewrite agent returning raw.
handle_refinement(raw) ==
  /\ pc = "listen"
  /\ "handle_refinement" \in pending
  /\ ran' = Append(ran, "handle_refinement")
  /\ calls' = Append(calls, [fn |-> "agent.kickoff",
                             job_posting |-> state.job_posting,
                             feedback |-> state.feedback])
  /\ IF raw = KickoffError
       THEN /\ pc' = "failed"
            /\ UNCHANGED <<state, persisted, pending, reply, produced>>
       ELSE /\ state' = store_posting(state, raw)
            /\ persisted' = state'
            /\ reply' = raw
            /\ produced' = TRUE
            /\ pending' = pending \ {"handle_refinement"}
            /\ pc' = finish("handle_refinement")
  /\ UNCHANGED <<turns, clean, pre, response>>

Next ==
  \/ kickoff
  \/ \E msg \in UserMessages : submit_turn(msg)
  \/ starting_flow
  \/ \E r \in RouterIntent \cup {LlmError} : routing_intent(r)
  \/ follow_up_conversation
  \/ \E raw \in HrCrew : handle_job_creation(raw)
  \/ \E raw \in Postings \cup {KickoffError} : handle_refinement(raw)

Spec == Init /\ [][Next]_vars

\* ------------------------------------------------- vocabulary of the claims
Slots == {"job_role", "location", "company_name"}

\* The value of a slot of an Optional[RoleInfo] (None when there is no RoleInfo).
SlotOf(ri, slot) == IF ri = NoRoleInfo THEN None ELSE ri[slot]

\* All three slots hold a text.
Complete(ri) == \A slot \in Slots : SlotOf(ri, slot) /= None

\* The classifier returned a RouterIntent in the current turn.
Classified == response /= NoResponse /\ response /= LlmError

ClassifiedAs(intent) == Classified /\ response.user_intent = intent

\* The current turn is over.
TurnOver == pc \in {"done", "failed"}

HasRun(m) == \E i \in 1..Len(ran) : ran[i] = m

\* The fields of a FlowState that make up the conversation.
Conversation(s) ==
  [message_history |-> s.message_history, role_info |-> s.role_info,
   job_posting |-> s.job_posting, feedback |-> s.feedback,
   answer_message |-> s.answer_message]

\* The history of the turn before any listener ran: the history the turn
\* started from, with the user message when it is not empty.
HistoryWithUser ==
  IF state.user_message /= ""
    THEN Append(pre.message_history, Message("user", state.user_message))
    ELSE pre.message_history

\* The turn's reply text was logged as the last, assistant, message and
\* nothing else was added after the user message.
ReplyLogged ==
  state.message_history = Append(HistoryWithUser, Message("assistant", reply))

\* An explicit new-job reset: job_creation while a posting exists and the
\* classified job_role or company_name is a text different from the stored one.
IsReset ==
  /\ ClassifiedAs("job_creation")
  /\ pre.job_posting /= None
  /\ \E slot \in {"job_role", "company_name"} :
       /\ SlotOf(response.role_info, slot) /= None
       /\ SlotOf(response.role_info, slot) /= SlotOf(pre.role_info, slot)

\* ------------------------------------------------------------------ claims

\* C1: a slot of the stored role_info that held a text before the turn still
\* holds a text after a classification that returns the slot as null, unless
\* the turn is an explicit new-job reset (stated for classifications that
\* carry a RoleInfo).
C1_SlotsNotNulled ==
  (Classified /\ response.role_info /= NoRoleInfo) =>
    \A slot \in Slots :
      (/\ SlotOf(pre.role_info, slot) /= None
       /\ SlotOf(response.role_info, slot) = None
       /\ ~IsReset)
      => SlotOf(state.role_info, slot) /= None

\* C2: the generator is called only with job_role, location and company_name
\* all non-null, and a job_creation turn whose role_info after the slot update
\* has a null slot makes no call to the generator.
C2_CreationNeedsAllSlots ==
  /\ \A i \in 1..Len(calls) :
       calls[i].fn = "crew.kickoff" =>
         (/\ calls[i].job_role /= None
          /\ calls[i].location /= None
          /\ calls[i].company_name /= None)
  /\ (ClassifiedAs("job_creation") /\ ~Complete(state.role_info)) => calls = << >>

\* C3: the rewrite agent is called only with a non-null job_posting and a
\* non-null feedback, and a refinement turn in which either is null makes no
\* rewrite call.
C3_RefinementNeedsPostingAndFeedback ==
  /\ (ClassifiedAs("refinement")
        /\ (state.job_posting = None \/ state.feedback = None)
        /\ pc = "listen") => calls = << >>
  /\ \A i \in 1..Len(calls) :
       calls[i].fn = "agent.kickoff" =>
         (calls[i].job_posting /= None /\ calls[i].feedback /= None)

\* C4: after a failed turn the persisted conversation state equals the
\* persisted state before the turn in all fields.
C4_FailedTurnLeavesStateUnchanged ==
  pc = "failed" => Conversation(persisted) = Conversation(pre)

\* C5: never are two listeners started for one turn, at most one runs, and in
\* a turn that completes exactly one ran: the one listening to the classified
\* user_intent.
C5_ExactlyOnePipeline ==
  /\ Cardinality(pending) <= 1
  /\ Len(ran) <= 1
  /\ pc = "done" =>
       (/\ Classified
        /\ Len(ran) = 1
        /\ ListenTo[ran[1]] = response.user_intent)

\* C5 witness: a turn completed by the refinement listener.
C5_Witness ==
  /\ pc = "done"
  /\ ClassifiedAs("refinement")
  /\ ran = <<"handle_refinement">>

\* C6: in a new-job reset turn, at the moment handle_job_creation is about to
\* run, role_info is the classified one and job_posting, feedback and
\* answer_message are null (stated for a classification with all three slots
\* and a stored posting that is not empty).
C6_ResetClearsBeforeDispatch ==
  (/\ IsReset
   /\ Complete(response.role_info)
   /\ Truthy(pre.job_posting)
   /\ pc = "listen"
   /\ "handle_job_creation" \in pending) =>
    (/\ state.role_info = response.role_info
     /\ state.job_posting = None
     /\ state.feedback = None
     /\ state.answer_message = None)

\* A step in which the generation or the rewrite listener completed.
PipelineSucceeded ==
  /\ pc = "listen"
  /\ pc' /= "failed"
  /\ Len(ran') = Len(ran) + 1
  /\ ran'[Len(ran')] \in {"handle_job_creation", "handle_refinement"}

\* C7: job_posting is non-null only after a generation or rewrite run
\* completed, and only a step completing such a run makes a null job_posting
\* non-null.
C7_PostingOnlyFromPipeline ==
  /\ [](state.job_posting /= None => produced)
  /\ [][(state.job_posting = None /\ state'.job_posting /= None)
          => PipelineSucceeded]_vars

\* C7 witness: the first turn of a conversation generated the posting that is
\* stored.
C7_Witness ==
  /\ turns = 1
  /\ pc = "done"
  /\ ran = <<"handle_job_creation">>
  /\ pre.job_posting = None
  /\ state.job_posting = "posting A"
  /\ produced

\* What C8 states of a conversation turn whose classification carries an
\* answer_message for which has_answer holds.
ConversationTurn(has_answer) ==
  (ClassifiedAs("conversation") /\ TurnOver) =>
    /\ state.job_posting = pre.job_posting
    /\ has_answer =>
         (/\ pc = "done"
          /\ reply = response.answer_message
          /\ ReplyLogged)
    /\ (pre.role_info = EmptyRoleInfo /\ pre.job_posting = None)
         => state.job_posting = None

\* C8 (as stated): a conversation turn leaves job_posting unchanged and, when
\* the classification carries a non-null answer_message, replies exactly that
\* answer_message and appends it as one assistant message.
C8_ConversationReply_Stated ==
  ConversationTurn(Classified /\ response.answer_message /= None)

\* C8 (amended): the same, for a classification whose answer_message is
\* non-null and not the empty string.
C8_ConversationReply ==
  ConversationTurn(Classified /\ Truthy(response.answer_message))

\* C8 witness: a conversation turn replied the classified answer and logged
\* it, with no posting before or after.
C8_Witness ==
  /\ pc = "done"
  /\ ClassifiedAs("conversation")
  /\ Truthy(response.answer_message)
  /\ reply = response.answer_message
  /\ ReplyLogged
  /\ pre.job_posting = None
  /\ state.job_posting = None

\* The generator call made for the slots of ri.
CrewCall(ri) ==
  [fn |-> "crew.kickoff", job_role |-> ri.job_role,
   location |-> ri.location, company_name |-> ri.company_name]

\* C9: a job_creation turn that starts with all three slots stored and no
\* posting calls the generator with exactly the stored slots, and on success
\* the returned text is job_posting, the last message and the reply (stated
\* for classifications that carry a RoleInfo).
C9_CreationUsesStoredSlots ==
  (/\ ClassifiedAs("job_creation")
   /\ response.role_info /= NoRoleInfo
   /\ Complete(pre.role_info)
   /\ pre.job_posting = None
   /\ TurnOver)
  => /\ calls = <<CrewCall(pre.role_info)>>
     /\ pc = "done" => (state.job_posting = reply /\ ReplyLogged)

\* C10: a refinement turn on a stored posting calls the rewrite with the
\* job_posting stored at the start of the turn and the feedback of this turn's
\* classification, and on success the result is job_posting, the last message
\* and the reply.
C10_RefinementUsesTurnFeedback ==
  (ClassifiedAs("refinement") /\ pre.job_posting /= None /\ TurnOver)
  => /\ calls = <<[fn |-> "agent.kickoff",
                   job_posting |-> pre.job_posting,
                   feedback |-> response.feedback]>>
     /\ pc = "done" => (state.job_posting = reply /\ ReplyLogged)

\* C11: an empty result of the generator or of the rewrite never becomes
\* job_posting and is never appended to the history as an assistant message.
C11_EmptyResultRejected ==
  /\ state.job_posting /= ""
  /\ \A i \in 1..Len(state.message_history) :
       state.message_history[i] /= Message("assistant", "")

\* The fields a failed classification must leave alone.
Slotted(s) ==
  [role_info |-> s.role_info, feedback |-> s.feedback,
   answer_message |-> s.answer_message, job_posting |-> s.job_posting]

\* C12: when the classifier call fails or returns no valid RouterIntent, the
\* turn has failed, no listener was started or run, no external call was made,
\* and role_info, feedback, answer_message and job_posting, in memory and as
\* persisted, are those of before the turn.
C12_ClassifierFailureStopsTurn ==
  response = LlmError =>
    (/\ pc = "failed"
     /\ pending = {}
     /\ ran = << >>
     /\ calls = << >>
     /\ Slotted(state) = Slotted(pre)
     /\ Slotted(persisted) = Slotted(pre))

\* C12 witness: the classifier failed after the user message was logged, and
\* the turn is over with the slots as they were.
C12_Witness ==
  /\ response = LlmError
  /\ pc = "failed"
  /\ Len(state.message_history) = Len(pre.message_history) + 1
  /\ state.role_info = EmptyRoleInfo

\* C13: the slot update of the router is idempotent: applied to the stored
\* state a second time with the same classifier result it gives the role_info
\* it gave the first time, which is the role_info the turn stored.
C13_SlotUpdateIdempotent ==
  Classified =>
    (/\ route(route(pre, response), response).role_info
          = route(pre, response).role_info
     /\ state.role_info = route(pre, response).role_info)

\* C13 witness: the classifier returned a RoleInfo with slots set, different
\* from the stored one, and the turn stored it.
C13_Witness ==
  /\ Classified
  /\ response.role_info \notin {EmptyRoleInfo, NoRoleInfo, pre.role_info}
  /\ state.role_info = response.role_info

\* Sequence h is an initial part of sequence g.
IsPrefix(h, g) == Len(h) <= Len(g) /\ SubSeq(g, 1, Len(h)) = h

\* C14: the message history of a conversation only grows at its end: in every
\* step but the construction of a new flow the history in memory, and the
\* persisted one, is a prefix of its next value, so no message is deleted,
\* reordered or changed.
C14_HistoryAppendOnly ==
  [][\/ kickoff
     \/ /\ IsPrefix(state.message_history, state'.message_history)
        /\ IsPrefix(persisted.message_history, persisted'.message_history)]_vars

\* C14 witness: a completed turn left the user message and, after it, the
\* assistant message in the history.
C14_Witness ==
  /\ pc = "done"
  /\ Len(pre.message_history) = 0
  /\ Len(state.message_history) = 2
  /\ state.message_history[1].role = "user"
  /\ state.message_history[2].role = "assistant"

\* C15: within a turn the user message is appended before classification and
\* classification is over before a listener runs, and the persisted state is
\* that of before the turn until the turn has completed: nothing of an
\* unfinished or failed turn is saved.
C15_SavedOnceAtEndOfTurn ==
  /\ Classified => IsPrefix(HistoryWithUser, state.message_history)
  /\ ran /= << >> => Classified
  /\ pc \in {"starting_flow", "routing_intent", "listen", "failed"}
       => Conversation(persisted) = Conversation(pre)

\* The roles of history h alternate, starting with the user.
Alternates(h) ==
  \A i \in 1..Len(h) : h[i].role = IF i % 2 = 1 THEN "user" ELSE "assistant"

\* C16: while every turn had a non-empty user_message and none failed, the
\* history alternates user, assistant, ...; it has 2n entries after the n-th
\* turn completed, and 2n - 1, the user message last, from the moment the
\* n-th turn is classified until its listener has finished.
C16_TwoMessagesPerTurn ==
  clean =>
    (/\ pc \in {"routing_intent", "listen", "done"} => Alternates(state.message_history)
     /\ pc = "starting_flow" => Len(state.message_history) = 2 * (turns - 1)
     /\ pc \in {"routing_intent", "listen"} =>
          (/\ Len(state.message_history) = 2 * turns - 1
           /\ state.message_history[2 * turns - 1]
                = Message("user", state.user_message))
     /\ pc = "done" => Len(state.message_history) = 2 * turns)

\* C16 witness: a completed generation turn with a user message left two
\* messages, the user's and then the posting.
C16_Witness ==
  /\ clean
  /\ pc = "done"
  /\ turns = 1
  /\ ran = <<"handle_job_creation">>
  /\ state.message_history
       = <<Message("user", DefaultUserMessage), Message("assistant", "posting A")>>

\* C17: the stored role_info, in memory and as persisted, is always a RoleInfo
\* record, never null.
C17_RoleInfoNeverNull ==
  /\ state.role_info /= NoRoleInfo
  /\ persisted.role_info /= NoRoleInfo
  /\ state.role_info \in RoleInfo
====
